---- MODULE Spec2Model ----
(***************************************************************************)
(* Model of the ClickHouse schema driver (package drivers): connection     *)
(* string builder, Open/Close lifecycle, catalog introspection             *)
(* (TableNames, Columns, PrimaryKeyInfo), the engine-string parser and     *)
(* the column type translator.                                             *)
(*                                                                         *)
(* A Go string is a sequence of characters, each a one-character string    *)
(* or, for a rune that cannot be written in one, its code point such as    *)
(* "U+000B"; Go's 0-based indices are kept (Index returns -1 when the byte *)
(* is absent).  A Go pointer result is a sequence of length 0 (nil) or 1;  *)
(* a Go error is a string, "" standing for nil.                            *)
(***************************************************************************)
EXTENDS Integers, Sequences, FiniteSets, TLC

VARIABLES
    UInt8AsBool,    \* package global of the ClickHouse driver
    TinyintAsBool,  \* package global of the MySQL driver (same package)
    dbConn,         \* ClickhouseDriver.dbConn: 0 is nil, else a handle id
    created,        \* handles sql.Open has returned so far
    closed,         \* handles on which (*sql.DB).Close has run
    panicked,       \* a nil dereference ended the process
    op,             \* the method that has just run ("" between calls)
    arg,            \* its input
    ret             \* its result

vars == <<UInt8AsBool, TinyintAsBool, dbConn, created, closed, panicked, op, arg, ret>>

driverVars == <<dbConn, created, closed, panicked>>
flagVars == <<UInt8AsBool, TinyintAsBool>>

(***************************************************************************)
(* Bounds of the model.                                                    *)
(***************************************************************************)
MaxLen == 6        \* longest arbitrary engine string
MaxCols == 2       \* most primary-key columns of a well-formed engine string
MaxTypeLen == 4    \* longest arbitrary raw column type
MaxHandles == 2    \* most successful Opens in one run
MaxList == 2       \* longest whitelist / blacklist
MaxInt == 1        \* integer config fields range over -MaxInt..MaxInt
MaxHosts == 2      \* most alternate hosts

(***************************************************************************)
(* strings / strconv as the driver uses them.                              *)
(***************************************************************************)
Digits == <<"0", "1", "2", "3", "4", "5", "6", "7", "8", "9">>

DigitVal(c) == (CHOOSE i \in 1..10 : Digits[i] = c) - 1

IsDigit(c) == \E i \in 1..10 : Digits[i] = c

\* s[:i]
Prefix(s, i) == SubSeq(s, 1, i)

\* s[i:]
Suffix(s, i) == SubSeq(s, i + 1, Len(s))

\* strings.Index(s, c) for a one-byte c
Index(s, c) ==
    IF \E i \in 1..Len(s) : s[i] = c
    THEN (CHOOSE i \in 1..Len(s) : s[i] = c /\ \A j \in 1..(i - 1) : s[j] # c) - 1
    ELSE -1

\* strings.LastIndex(s, c) for a one-byte c
LastIndex(s, c) ==
    IF \E i \in 1..Len(s) : s[i] = c
    THEN (CHOOSE i \in 1..Len(s) : s[i] = c /\ \A j \in (i + 1)..Len(s) : s[j] # c) - 1
    ELSE -1

\* strings.TrimLeft(s, cutset)
TrimLeft(s, cutset) ==
    IF \A i \in 1..Len(s) : s[i] \in cutset
    THEN <<>>
    ELSE Suffix(s, (CHOOSE i \in 1..Len(s) :
                        s[i] \notin cutset /\ \A j \in 1..(i - 1) : s[j] \in cutset) - 1)

\* strings.TrimRight(s, cutset)
TrimRight(s, cutset) ==
    IF \A i \in 1..Len(s) : s[i] \in cutset
    THEN <<>>
    ELSE Prefix(s, CHOOSE i \in 1..Len(s) :
                        s[i] \notin cutset /\ \A j \in (i + 1)..Len(s) : s[j] \in cutset)

\* strings.Trim(s, cutset)
Trim(s, cutset) == TrimRight(TrimLeft(s, cutset), cutset)

\* unicode.IsSpace: '\t', '\n', '\v', '\f', '\r', ' ', U+0085 (NEL) and
\* U+00A0 (NBSP) in Latin-1, and the runes of the White_Space property
\* beyond it.
WhiteSpace ==
    {"\t", "\n", "U+000B", "\f", "\r", " ", "U+0085", "U+00A0",
     "U+1680", "U+2000", "U+2001", "U+2002", "U+2003", "U+2004", "U+2005", "U+2006",
     "U+2007", "U+2008", "U+2009", "U+200A", "U+2028", "U+2029", "U+202F", "U+205F",
     "U+3000"}

\* strings.TrimSpace(s)
TrimSpace(s) == Trim(s, WhiteSpace)

\* strings.Split(s, sep) for a one-byte sep: n separators give n+1 fields,
\* the empty string gives one empty field.
RECURSIVE Split(_, _)
Split(s, sep) ==
    LET i == Index(s, sep)
    IN  IF i = -1 THEN <<s>>
        ELSE <<Prefix(s, i)>> \o Split(Suffix(s, i + 1), sep)

\* strings.Repeat(s, n)
RECURSIVE Repeat(_, _)
Repeat(s, n) == IF n <= 0 THEN <<>> ELSE s \o Repeat(s, n - 1)

\* strings.Join(elems, sep)
RECURSIVE Join(_, _)
Join(elems, sep) ==
    IF Len(elems) = 0 THEN <<>>
    ELSE IF Len(elems) = 1 THEN elems[1]
    ELSE elems[1] \o sep \o Join(Tail(elems), sep)

\* math.MaxInt64 = 9223372036854775807, as its decimal digits
MaxInt64Digits ==
    <<"9", "2", "2", "3", "3", "7", "2", "0", "3", "6", "8", "5", "4", "7", "7", "5", "8", "0", "7">>

\* ds <= bound for digit strings without leading zeros
RECURSIVE DigitsLeq(_, _)
DigitsLeq(ds, bound) ==
    IF Len(ds) # Len(bound) THEN Len(ds) < Len(bound)
    ELSE IF Len(ds) = 0 THEN TRUE
    ELSE IF ds[1] # bound[1] THEN DigitVal(ds[1]) < DigitVal(bound[1])
    ELSE DigitsLeq(Tail(ds), Tail(bound))

RECURSIVE DecimalValue(_)
DecimalValue(ds) ==
    IF Len(ds) = 0 THEN 0
    ELSE 10 * DecimalValue(Prefix(ds, Len(ds) - 1)) + DigitVal(ds[Len(ds)])

\* strconv.Atoi(s): an optional sign, then one or more decimal digits, within
\* the range of a 64-bit int (-MaxInt64-1 is the one value beyond MaxInt64 in
\* magnitude); anything else is an error.
Atoi(s) ==
    LET signed == Len(s) > 0 /\ s[1] \in {"+", "-"}
        neg == signed /\ s[1] = "-"
        ds == IF signed THEN Tail(s) ELSE s
        sig == TrimLeft(ds, {"0"})
        minMag == Prefix(MaxInt64Digits, 18) \o <<"8">>
    IN  IF Len(ds) = 0 \/ \E i \in 1..Len(ds) : ~IsDigit(ds[i])
        THEN [ok |-> FALSE, val |-> 0]
        ELSE IF ~DigitsLeq(sig, IF neg THEN minMag ELSE MaxInt64Digits)
        THEN [ok |-> FALSE, val |-> 0]
        ELSE [ok |-> TRUE, val |-> IF neg THEN -DecimalValue(sig) ELSE DecimalValue(sig)]

\* strconv.Itoa(n)
RECURSIVE ItoaNat(_)
ItoaNat(n) ==
    IF n < 10 THEN <<Digits[n + 1]>>
    ELSE ItoaNat(n \div 10) \o <<Digits[(n % 10) + 1]>>

Itoa(n) == IF n < 0 THEN <<"-">> \o ItoaNat(-n) ELSE ItoaNat(n)

\* strconv.FormatBool(b)
FormatBool(b) == IF b THEN <<"t", "r", "u", "e">> ELSE <<"f", "a", "l", "s", "e">>

(***************************************************************************)
(* parseEngine                                                             *)
(***************************************************************************)
BracketCutset == {"(", ")", " "}
CommaCutset == {",", " "}

ParseFailure(msg) == [engine |-> <<>>, err |-> msg]

\* A plausible slip: the strconv.Atoi error is dropped and the zero
\* granularity kept.
parseEngineIgnoringAtoi(str) ==
    LET idx == Index(str, "(")
    IN  IF idx = -1 THEN ParseFailure("open bracket not found")
        ELSE
        LET params == Trim(Suffix(str, idx), BracketCutset)
            idx2 == Index(params, ",")
        IN  IF idx2 = -1 THEN ParseFailure("partitioning key not found")
            ELSE
            LET params2 == TrimLeft(Suffix(params, idx2), CommaCutset)
                idx3 == LastIndex(params2, ",")
            IN  IF idx3 = -1 THEN ParseFailure("granularity key not found")
                ELSE
                LET granularity == Atoi(Trim(Suffix(params2, idx3), CommaCutset))
                    primaryKey == Split(Trim(Prefix(params2, idx3), BracketCutset), ",")
                IN  [engine |-> <<[Name |-> Prefix(str, idx),
                                   PartitioningKey |-> Prefix(params, idx2),
                                   PrimaryKey |-> [i \in 1..Len(primaryKey) |->
                                                       TrimSpace(primaryKey[i])],
                                   Granularity |-> granularity.val]>>,
                     err |-> ""]

\* A plausible slip: the split columns are stored without TrimSpace.
parseEngineUntrimmedColumns(str) ==
    LET idx == Index(str, "(")
    IN  IF idx = -1 THEN ParseFailure("open bracket not found")
        ELSE
        LET params == Trim(Suffix(str, idx), BracketCutset)
            idx2 == Index(params, ",")
        IN  IF idx2 = -1 THEN ParseFailure("partitioning key not found")
            ELSE
            LET params2 == TrimLeft(Suffix(params, idx2), CommaCutset)
                idx3 == LastIndex(params2, ",")
            IN  IF idx3 = -1 THEN ParseFailure("granularity key not found")
                ELSE
                LET granularity == Atoi(Trim(Suffix(params2, idx3), CommaCutset))
                IN  IF ~granularity.ok THEN ParseFailure("parsing granularity failed")
                    ELSE
                    [engine |-> <<[Name |-> Prefix(str, idx),
                                   PartitioningKey |-> Prefix(params, idx2),
                                   PrimaryKey |-> Split(Trim(Prefix(params2, idx3),
                                                             BracketCutset), ","),
                                   Granularity |-> granularity.val]>>,
                     err |-> ""]

\* (m *ClickhouseDriver) parseEngine(str)
parseEngine(str) ==
    LET idx == Index(str, "(")
    IN  IF idx = -1 THEN ParseFailure("open bracket not found")
        ELSE
        LET params == Trim(Suffix(str, idx), BracketCutset)
            idx2 == Index(params, ",")
        IN  IF idx2 = -1 THEN ParseFailure("partitioning key not found")
            ELSE
            LET params2 == TrimLeft(Suffix(params, idx2), CommaCutset)
                idx3 == LastIndex(params2, ",")
            IN  IF idx3 = -1 THEN ParseFailure("granularity key not found")
                ELSE
                LET granularity == Atoi(Trim(Suffix(params2, idx3), CommaCutset))
                IN  IF ~granularity.ok THEN ParseFailure("parsing granularity failed")
                    ELSE
                    LET primaryKey == Split(Trim(Prefix(params2, idx3), BracketCutset), ",")
                    IN  [engine |-> <<[Name |-> Prefix(str, idx),
                                       PartitioningKey |-> Prefix(params, idx2),
                                       PrimaryKey |-> [i \in 1..Len(primaryKey) |->
                                                           TrimSpace(primaryKey[i])],
                                       Granularity |-> granularity.val]>>,
                         err |-> ""]

(***************************************************************************)
(* Initial values shared by the specifications.                            *)
(***************************************************************************)
\* NewClickhouseDriver leaves dbConn nil; nothing is open yet.
DriverInit == dbConn = 0 /\ created = {} /\ closed = {} /\ panicked = FALSE

\* Go zero values of the two package globals.
FlagsInit == UInt8AsBool = FALSE /\ TinyintAsBool = FALSE

(***************************************************************************)
(* Specification SpecParse: parseEngine applied to one engine string.      *)
(***************************************************************************)
EngineAlphabet == {"(", ")", ",", " ", "\t", "a", "1"}

ArbitraryStrings == UNION {[1..n -> EngineAlphabet] : n \in 0..MaxLen}

EngineNames == {<<>>, <<"M">>, <<"a", ",", ")", " ">>}
Identifiers == {<<"a">>, <<"b", "1">>, <<"\t", "a">>}

\* Column names: plain ones, and ones with white space other than a blank
\* at an end or inside, in Latin-1 and beyond it.
ColumnIdentifiers ==
    Identifiers \cup {<<"b", "\n">>, <<"U+000B", "b", "U+00A0">>, <<"a", "\r", "b">>,
                     <<"U+2003", "b", "U+3000">>}

\* Integer literals for the granularity field: the text, whether the value
\* fits Go's 64-bit int, and the value when it does.  math.MaxInt64 is
\* 9223372036854775807, math.MinInt64 is -9223372036854775808.
GranularityLiterals ==
    {[text |-> <<"0">>, fits |-> TRUE, value |-> 0],
     [text |-> <<"1">>, fits |-> TRUE, value |-> 1],
     [text |-> <<"8", "1", "9", "2">>, fits |-> TRUE, value |-> 8192],
     [text |-> <<"-", "1">>, fits |-> TRUE, value |-> -1],
     [text |-> <<"0", "0", "7">>, fits |-> TRUE, value |-> 7],
     [text |-> Prefix(MaxInt64Digits, 18) \o <<"8">>, fits |-> FALSE, value |-> 0],
     [text |-> <<"-">> \o Prefix(MaxInt64Digits, 18) \o <<"9">>, fits |-> FALSE, value |-> 0],
     [text |-> <<"1">> \o MaxInt64Digits, fits |-> FALSE, value |-> 0]}

ColumnLists == UNION {[1..n -> ColumnIdentifiers] : n \in 1..MaxCols}

\* The engine string Name(P, (c1, ..., cn), G) as the catalog prints it.
FormatEngine(name, p, cols, g) ==
    name \o <<"(">> \o p \o <<",", " ", "(">> \o Join(cols, <<",", " ">>)
         \o <<")", ",", " ">> \o g \o <<")">>

MergeTree == <<"M", "e", "r", "g", "e", "T", "r", "e", "e">>
EventDate == <<"E", "v", "e", "n", "t", "D", "a", "t", "e">>
CounterID == <<"C", "o", "u", "n", "t", "e", "r", "I", "D">>

\* "MergeTree(EventDate, (CounterID, EventDate), 8192)"
ExampleEngine ==
    MergeTree \o <<"(">> \o EventDate \o <<",", " ", "(">> \o CounterID \o <<",", " ">>
        \o EventDate \o <<")", ",", " ", "8", "1", "9", "2", ")">>

ExampleParts ==
    [Name |-> MergeTree, PartitioningKey |-> EventDate,
     PrimaryKey |-> <<CounterID, EventDate>>, Granularity |-> 8192]

\* Strings of the form Name(P, (c1, ..., cn), G) with the parts they were
\* built from; fits tells whether G is in the range of int.
WellFormedInputs ==
    {[str |-> FormatEngine(n, p, cols, g.text),
      parts |-> <<[Name |-> n, PartitioningKey |-> p, PrimaryKey |-> cols,
                   Granularity |-> g.value]>>,
      fits |-> g.fits] :
        n \in EngineNames, p \in Identifiers, cols \in ColumnLists, g \in GranularityLiterals}
    \cup {[str |-> ExampleEngine, parts |-> <<ExampleParts>>, fits |-> TRUE]}

ArbitraryInputs == {[str |-> s, parts |-> <<>>, fits |-> TRUE] : s \in ArbitraryStrings}

InitParse ==
    /\ DriverInit /\ FlagsInit
    /\ op = ""
    /\ arg \in WellFormedInputs \cup ArbitraryInputs
    /\ ret = <<>>

ParseEngineCall ==
    /\ op = ""
    /\ op' = "parseEngine"
    /\ ret' = parseEngine(arg.str)
    /\ UNCHANGED <<arg, driverVars, flagVars>>

NextParse == ParseEngineCall

SpecParse == InitParse /\ [][NextParse]_vars

\* ---- C2 ----
\* The characters with the Unicode White_Space property: tab, newline,
\* vertical tab, form feed, carriage return, blank, NEL, NBSP, and the
\* space and line separators from U+1680 to U+3000.
SpaceCharacters ==
    {"\t", "\n", "U+000B", "\f", "\r", " ", "U+0085", "U+00A0", "U+1680"}
        \cup {"U+2000", "U+2001", "U+2002", "U+2003", "U+2004", "U+2005"}
        \cup {"U+2006", "U+2007", "U+2008", "U+2009", "U+200A"}
        \cup {"U+2028", "U+2029", "U+202F", "U+205F", "U+3000"}

\* c without the white space at its two ends.
Stripped(c) ==
    LET inner == {k \in 1..Len(c) : c[k] \notin SpaceCharacters}
        IsMin(k) == k \in inner /\ \A j \in inner : k <= j
        IsMax(k) == k \in inner /\ \A j \in inner : j <= k
    IN  IF inner = {} THEN <<>>
        ELSE LET lo == CHOOSE k \in inner : IsMin(k)
                 hi == CHOOSE k \in inner : IsMax(k)
             IN  [k \in 1..(hi - lo + 1) |-> c[lo + k - 1]]

\* C2 as stated: for every engine string of the form Name(P, (c1, ..., cn), G),
\* n >= 1, P and each ci without comma, parenthesis or space, G a base-10
\* integer literal, parseEngine succeeds and yields Name, P, the columns
\* c1..cn themselves in order, with no surrounding white space, and the
\* granularity G.
C2_WellFormedParses ==
    (op = "parseEngine" /\ arg.parts # <<>>) =>
        /\ ret.err = ""
        /\ ret.engine = arg.parts
        /\ \A i \in 1..Len(ret.engine[1].PrimaryKey) :
               Stripped(ret.engine[1].PrimaryKey[i]) = ret.engine[1].PrimaryKey[i]

\* C2 amended: for every such string whose G is in the range of int,
\* parseEngine succeeds and yields Name, P, the granularity G and, in order,
\* each ci without the Unicode white space at its ends: ci itself when it
\* neither begins nor ends with white space, as in the MergeTree example of
\* the documentation.  When G is outside the range of int, parseEngine
\* returns an error and no engine.
C2_WellFormedParsesStripped ==
    (op = "parseEngine" /\ arg.parts # <<>>) =>
        IF arg.fits
        THEN /\ ret.err = ""
             /\ Len(ret.engine) = 1
             /\ ret.engine[1].Name = arg.parts[1].Name
             /\ ret.engine[1].PartitioningKey = arg.parts[1].PartitioningKey
             /\ ret.engine[1].Granularity = arg.parts[1].Granularity
             /\ Len(ret.engine[1].PrimaryKey) = Len(arg.parts[1].PrimaryKey)
             /\ \A i \in 1..Len(arg.parts[1].PrimaryKey) :
                    /\ ret.engine[1].PrimaryKey[i] = Stripped(arg.parts[1].PrimaryKey[i])
                    /\ Stripped(arg.parts[1].PrimaryKey[i]) = arg.parts[1].PrimaryKey[i]
                           => ret.engine[1].PrimaryKey[i] = arg.parts[1].PrimaryKey[i]
        ELSE ret.err # "" /\ ret.engine = <<>>

C2_Witness ==
    /\ op = "parseEngine"
    /\ arg.str = ExampleEngine
    /\ ret.err = ""
    /\ ret.engine[1].PrimaryKey = <<CounterID, EventDate>>
    /\ ret.engine[1].Granularity = 8192

\* ---- C3 ----
NoOpenBracket(s) == \A i \in 1..Len(s) : s[i] # "("

FirstBracket(s) == CHOOSE i \in 1..Len(s) : s[i] = "(" /\ \A j \in 1..(i - 1) : s[j] # "("

\* No comma after the first open bracket.
NoCommaInBody(s) ==
    ~NoOpenBracket(s) /\ \A i \in (FirstBracket(s) + 1)..Len(s) : s[i] # ","

\* The text after the last comma of the body, without the blanks around it
\* and without the closing brackets.
TrailingField(s) ==
    LET last == CHOOSE i \in 1..Len(s) : s[i] = "," /\ \A j \in (i + 1)..Len(s) : s[j] # ","
        field == [k \in 1..(Len(s) - last) |-> s[last + k]]
        IsPad(c) == c \in {" ", "(", ")"}
        from == IF \A k \in 1..Len(field) : IsPad(field[k]) THEN Len(field) + 1
                ELSE CHOOSE k \in 1..Len(field) :
                         ~IsPad(field[k]) /\ \A j \in 1..(k - 1) : IsPad(field[j])
        to == IF \A k \in 1..Len(field) : IsPad(field[k]) THEN Len(field)
              ELSE CHOOSE k \in 1..Len(field) :
                       ~IsPad(field[k]) /\ \A j \in (k + 1)..Len(field) : IsPad(field[j])
    IN  [k \in 1..(to - from + 1) |-> field[from + k - 1]]

\* A base-10 integer literal: an optional sign and at least one digit.
IsIntegerLiteral(t) ==
    LET body == IF Len(t) > 0 /\ t[1] \in {"+", "-"} THEN [k \in 1..(Len(t) - 1) |-> t[k + 1]]
                ELSE t
    IN  Len(body) > 0 /\ \A k \in 1..Len(body) : body[k] \in {Digits[d] : d \in 1..10}

TrailingFieldNotInteger(s) ==
    ~NoOpenBracket(s) /\ ~NoCommaInBody(s) /\ ~IsIntegerLiteral(TrailingField(s))

\* C3: parseEngine returns an error and no descriptor for every string that
\* (a) has no '(', (b) has no comma in its parenthesized body, or (c) has a
\* non-integer field after the last comma; a descriptor is produced only for
\* a string with a parameter list whose last field is an integer.
C3_MalformedFails ==
    op = "parseEngine" =>
        /\ (NoOpenBracket(arg.str) \/ NoCommaInBody(arg.str)
                \/ TrailingFieldNotInteger(arg.str))
              => (ret.err # "" /\ ret.engine = <<>>)
        /\ ret.engine # <<>> =>
              /\ ret.err = ""
              /\ ~NoOpenBracket(arg.str) /\ ~NoCommaInBody(arg.str)
              /\ IsIntegerLiteral(TrailingField(arg.str))

C3_Witness ==
    /\ op = "parseEngine"
    /\ arg.str = <<"(", ",", "a", ",", "a">>
    /\ TrailingFieldNotInteger(arg.str)
    /\ ret.err = "parsing granularity failed"
    /\ ret.engine = <<>>

(***************************************************************************)
(* TranslateColumnType.  The switch compares c.DBType as a whole, so type  *)
(* names are atomic strings here.                                          *)
(***************************************************************************)
\* A plausible slip: the default branch leaves c.Type unset.
TranslateColumnTypeNoDefault(c) ==
    [c EXCEPT !.Type =
        CASE c.DBType = "UInt8" -> IF TinyintAsBool THEN "bool" ELSE "uint8"
          [] c.DBType = "UInt16" -> "uint16"
          [] c.DBType = "UInt32" -> "uint32"
          [] c.DBType = "UInt64" -> "uint64"
          [] c.DBType = "Int8" -> "int8"
          [] c.DBType = "Int16" -> "int16"
          [] c.DBType = "Int32" -> "int32"
          [] c.DBType = "Int64" -> "int64"
          [] c.DBType = "Float32" -> "float32"
          [] c.DBType = "Float64" -> "float64"
          [] c.DBType \in {"Date", "DateTime"} -> "time.Time"
          [] c.DBType = "FixedString" -> "types.FixedString"
          [] c.DBType = "String" -> "string"
          [] OTHER -> c.Type]

\* (m *ClickhouseDriver) TranslateColumnType(c)
TranslateColumnType(c) ==
    [c EXCEPT !.Type =
        CASE c.DBType = "UInt8" -> IF TinyintAsBool THEN "bool" ELSE "uint8"
          [] c.DBType = "UInt16" -> "uint16"
          [] c.DBType = "UInt32" -> "uint32"
          [] c.DBType = "UInt64" -> "uint64"
          [] c.DBType = "Int8" -> "int8"
          [] c.DBType = "Int16" -> "int16"
          [] c.DBType = "Int32" -> "int32"
          [] c.DBType = "Int64" -> "int64"
          [] c.DBType = "Float32" -> "float32"
          [] c.DBType = "Float64" -> "float64"
          [] c.DBType \in {"Date", "DateTime"} -> "time.Time"
          [] c.DBType = "FixedString" -> "types.FixedString"
          [] c.DBType = "String" -> "string"
          [] OTHER -> "[]byte"]

(***************************************************************************)
(* Specification SpecTranslate: the flags are set, then one column is      *)
(* translated.                                                             *)
(***************************************************************************)
TableTypes ==
    {"UInt8", "UInt16", "UInt32", "UInt64", "Int8", "Int16", "Int32", "Int64",
     "Float32", "Float64", "Date", "DateTime", "FixedString", "String"}

OtherTypes ==
    {"", "FixedString(16)", "Nullable(String)", "Array(UInt8)", "UInt128", "uint8",
     "string", "Enum8", "UUID", "UInt8 ", "Bool", "DateTime64"}

TranslateInputs ==
    {[Name |-> "c", FullDBType |-> t, DBType |-> t, Default |-> "", Type |-> ""] :
        t \in TableTypes \cup OtherTypes}

InitTranslate ==
    /\ DriverInit
    /\ UInt8AsBool \in BOOLEAN
    /\ TinyintAsBool \in BOOLEAN
    /\ op = ""
    /\ arg \in TranslateInputs
    /\ ret = <<>>

TranslateColumnTypeCall ==
    /\ op = ""
    /\ op' = "TranslateColumnType"
    /\ ret' = TranslateColumnType(arg)
    /\ UNCHANGED <<arg, driverVars, flagVars>>

NextTranslate == TranslateColumnTypeCall

SpecTranslate == InitTranslate /\ [][NextTranslate]_vars

\* ---- C1 ----
\* C1: the translation of a column whose base type is "UInt8" depends only
\* on the ClickHouse flag UInt8AsBool, whatever the rest of the state
\* (the flags of other drivers included): "uint8" when it is false, "bool"
\* when it is true.
C1_UInt8FollowsUInt8AsBool ==
    (op = "TranslateColumnType" /\ arg.DBType = "UInt8") =>
        ret.Type = (IF UInt8AsBool THEN "bool" ELSE "uint8")

\* ---- C9 ----
FixedTargets ==
    [t \in TableTypes \ {"UInt8"} |->
        CASE t = "UInt16" -> "uint16" [] t = "UInt32" -> "uint32" [] t = "UInt64" -> "uint64"
          [] t = "Int8" -> "int8" [] t = "Int16" -> "int16" [] t = "Int32" -> "int32"
          [] t = "Int64" -> "int64" [] t = "Float32" -> "float32" [] t = "Float64" -> "float64"
          [] t = "Date" -> "time.Time" [] t = "DateTime" -> "time.Time"
          [] t = "FixedString" -> "types.FixedString" [] t = "String" -> "string"]

\* C9: TranslateColumnType is total and follows the table: every base type
\* yields a non-empty type name, the listed names their fixed targets, and
\* every string outside the table (a parameterized one such as
\* "FixedString(16)" included) the fallback "[]byte"; nothing but Type
\* changes.
C9_TranslationTotal ==
    op = "TranslateColumnType" =>
        /\ ret.Type # ""
        /\ arg.DBType \in DOMAIN FixedTargets => ret.Type = FixedTargets[arg.DBType]
        /\ arg.DBType \notin TableTypes => ret.Type = "[]byte"
        /\ ret = [arg EXCEPT !.Type = ret.Type]

C9_Witness ==
    /\ op = "TranslateColumnType"
    /\ arg.DBType = "FixedString(16)"
    /\ ret.Type = "[]byte"

(***************************************************************************)
(* net/url as ClickhouseBuildQueryString uses it.  Escaping works on the   *)
(* bytes of the UTF-8 encoding of a string.                                *)
(***************************************************************************)
\* The printable ASCII characters in code order, 0x20 (blank) to 0x7E ('~');
\* U+0060 is the grave accent.
PrintableASCII ==
    <<" ", "!", "\"", "#", "$", "%", "&", "'", "(", ")", "*", "+", ",", "-", ".", "/",
      "0", "1", "2", "3", "4", "5", "6", "7", "8", "9", ":", ";", "<", "=", ">", "?",
      "@", "A", "B", "C", "D", "E", "F", "G", "H", "I", "J", "K", "L", "M", "N", "O",
      "P", "Q", "R", "S", "T", "U", "V", "W", "X", "Y", "Z", "[", "\\", "]", "^", "_",
      "U+0060", "a", "b", "c", "d", "e", "f", "g", "h", "i", "j", "k", "l", "m", "n", "o",
      "p", "q", "r", "s", "t", "u", "v", "w", "x", "y", "z", "{", "|", "}", "~">>

\* The code point of a character.
CodePoint(c) ==
    CASE c = "\t" -> 9
      [] c = "\n" -> 10
      [] c = "U+000B" -> 11
      [] c = "\f" -> 12
      [] c = "\r" -> 13
      [] c = "U+0085" -> 133
      [] c = "U+00A0" -> 160
      [] c = "U+00E9" -> 233
      [] c = "U+1680" -> 5760
      [] c = "U+2000" -> 8192
      [] c = "U+2001" -> 8193
      [] c = "U+2002" -> 8194
      [] c = "U+2003" -> 8195
      [] c = "U+2004" -> 8196
      [] c = "U+2005" -> 8197
      [] c = "U+2006" -> 8198
      [] c = "U+2007" -> 8199
      [] c = "U+2008" -> 8200
      [] c = "U+2009" -> 8201
      [] c = "U+200A" -> 8202
      [] c = "U+2028" -> 8232
      [] c = "U+2029" -> 8233
      [] c = "U+202F" -> 8239
      [] c = "U+205F" -> 8287
      [] c = "U+3000" -> 12288
      [] OTHER -> 31 + CHOOSE i \in 1..Len(PrintableASCII) : PrintableASCII[i] = c

\* The bytes of the UTF-8 encoding of a code point of the basic plane.
UTF8(cp) ==
    IF cp < 128 THEN <<cp>>
    ELSE IF cp < 2048 THEN <<192 + (cp \div 64), 128 + (cp % 64)>>
    ELSE <<224 + (cp \div 4096), 128 + ((cp \div 64) % 64), 128 + (cp % 64)>>

\* The bytes of a string.
RECURSIVE Bytes(_)
Bytes(s) == IF Len(s) = 0 THEN <<>> ELSE UTF8(CodePoint(s[1])) \o Bytes(Tail(s))

\* const upperhex = "0123456789ABCDEF"
UpperHex == Digits \o <<"A", "B", "C", "D", "E", "F">>

\* url.shouldEscape(c, mode) for mode "host" (encodeHost) and mode "query"
\* (encodeQueryComponent): alphanumerics never; in a host the sub-delimiters
\* and ':', '[', ']', '<', '>', double quote neither; '-', '_', '.', '~' never; every
\* other byte is escaped.
ShouldEscape(b, mode) ==
    IF b \in 97..122 \/ b \in 65..90 \/ b \in 48..57 THEN FALSE
    ELSE IF /\ mode = "host"
            /\ b \in {CodePoint(c) : c \in {"!", "$", "&", "'", "(", ")", "*", "+", ",", ";",
                                         "=", ":", "[", "]", "<", ">", "\""}}
         THEN FALSE
    ELSE b \notin {CodePoint(c) : c \in {"-", "_", ".", "~"}}

\* What url.escape writes for one byte: '+' for a blank of a query
\* component, %XX in upper-case hexadecimal for a byte to escape, the byte
\* itself otherwise.
EscapeByte(b, mode) ==
    IF b = 32 /\ mode = "query" THEN <<"+">>
    ELSE IF ShouldEscape(b, mode)
         THEN <<"%", UpperHex[(b \div 16) + 1], UpperHex[(b % 16) + 1]>>
    ELSE <<PrintableASCII[b - 31]>>

RECURSIVE EscapeBytes(_, _)
EscapeBytes(bs, mode) ==
    IF Len(bs) = 0 THEN <<>> ELSE EscapeByte(bs[1], mode) \o EscapeBytes(Tail(bs), mode)

\* url.escape(s, mode)
Escape(s, mode) == EscapeBytes(Bytes(s), mode)

\* url.QueryEscape(s)
QueryEscape(s) == Escape(s, "query")

\* url.Values.Set(key, value)
Set(q, key, value) == [k \in DOMAIN q \cup {key} |-> IF k = key THEN value ELSE q[k]]

\* url.Values{}
EmptyValues == [k \in {} |-> <<>>]

\* The keys the builder can set, in the order sort.Strings gives them.
SortedKeys ==
    <<<<"a", "l", "t", "_", "h", "o", "s", "t", "s">>,
      <<"b", "l", "o", "c", "k", "_", "s", "i", "z", "e">>,
      <<"c", "o", "n", "n", "e", "c", "t", "i", "o", "n", "_", "o", "p", "e", "n", "_", "s", "t", "r", "a", "t", "e", "g", "y">>,
      <<"d", "a", "t", "a", "b", "a", "s", "e">>,
      <<"d", "e", "b", "u", "g">>,
      <<"n", "o", "_", "d", "e", "l", "a", "y">>,
      <<"p", "a", "s", "s", "w", "o", "r", "d">>,
      <<"r", "e", "a", "d", "_", "t", "i", "m", "e", "o", "u", "t">>,
      <<"u", "s", "e", "r", "n", "a", "m", "e">>,
      <<"w", "r", "i", "t", "e", "_", "t", "i", "m", "e", "o", "u", "t">>>>

KeyUsername == SortedKeys[9]
KeyPassword == SortedKeys[7]
KeyDatabase == SortedKeys[4]
KeyReadTimeout == SortedKeys[8]
KeyWriteTimeout == SortedKeys[10]
KeyNoDelay == SortedKeys[6]
KeyAltHosts == SortedKeys[1]
KeyConnectionOpenStrategy == SortedKeys[3]
KeyBlockSize == SortedKeys[2]
KeyDebug == SortedKeys[5]

\* url.Values.Encode(): escaped key, '=', escaped value for each key in
\* sorted order, the pairs separated by '&'.
RECURSIVE EncodeFrom(_, _, _)
EncodeFrom(q, i, buf) ==
    IF i > Len(SortedKeys) THEN buf
    ELSE IF SortedKeys[i] \in DOMAIN q
         THEN EncodeFrom(q, i + 1,
                         buf \o (IF Len(buf) > 0 THEN <<"&">> ELSE <<>>)
                             \o QueryEscape(SortedKeys[i]) \o <<"=">>
                             \o QueryEscape(q[SortedKeys[i]]))
    ELSE EncodeFrom(q, i + 1, buf)

Encode(q) == EncodeFrom(q, 1, <<>>)

\* (*url.URL).String() of a URL with a scheme, a host and a raw query and
\* nothing else: scheme, "://", the host escaped as a host, and '?' with
\* the raw query when there is one.
String(dsn) ==
    dsn.Scheme \o <<":">>
        \o (IF dsn.Host # <<>> THEN <<"/", "/">> \o Escape(dsn.Host, "host") ELSE <<>>)
        \o (IF dsn.RawQuery # <<>> THEN <<"?">> \o dsn.RawQuery ELSE <<>>)

\* The values set up to and including "database" (lines 62-69).
CredentialValues(config) ==
    LET q1 == IF config.Username # <<>> THEN Set(EmptyValues, KeyUsername, config.Username)
              ELSE EmptyValues
        q2 == IF config.Password # <<>> THEN Set(q1, KeyPassword, config.Password) ELSE q1
    IN  Set(q2, KeyDatabase, config.Database)

\* The timeouts (lines 71-76).
TimeoutValues(config, q) ==
    LET q1 == IF config.ReadTimeout # 0 THEN Set(q, KeyReadTimeout, Itoa(config.ReadTimeout))
              ELSE q
    IN  IF config.WriteTimeout # 0 THEN Set(q1, KeyWriteTimeout, Itoa(config.WriteTimeout))
        ELSE q1

\* alt_hosts, connection_open_strategy, block_size and debug (lines 80-92).
OptionValues(config, q) ==
    LET q1 == IF Len(config.AltHosts) > 0
              THEN Set(q, KeyAltHosts, Join(config.AltHosts, <<",">>)) ELSE q
        q2 == IF config.ConnectionOpenStrategy # <<>>
              THEN Set(q1, KeyConnectionOpenStrategy, config.ConnectionOpenStrategy) ELSE q1
        q3 == IF config.BlockSize > 0 THEN Set(q2, KeyBlockSize, Itoa(config.BlockSize)) ELSE q2
    IN  Set(q3, KeyDebug, FormatBool(config.Debug))

\* A plausible slip: no_delay is written from Nagle without the negation.
ClickhouseBuildQueryStringNoNegation(config) ==
    String([Scheme |-> <<"t", "c", "p">>,
            Host |-> config.Host \o <<":">> \o Itoa(config.Port),
            RawQuery |-> Encode(OptionValues(config,
                            Set(TimeoutValues(config, CredentialValues(config)),
                                KeyNoDelay, FormatBool(config.Nagle))))])

\* ClickhouseBuildQueryString(config): the text dsn.String() returns.
ClickhouseBuildQueryString(config) ==
    String([Scheme |-> <<"t", "c", "p">>,
            Host |-> config.Host \o <<":">> \o Itoa(config.Port),
            RawQuery |-> Encode(OptionValues(config,
                            Set(TimeoutValues(config, CredentialValues(config)),
                                KeyNoDelay, FormatBool(~config.Nagle))))])

(***************************************************************************)
(* Specification SpecDSN: one configuration, one connection string.        *)
(***************************************************************************)
ConfigInts == (0 - MaxInt)..MaxInt

HostNames == {<<"h", "1">>, <<"h", "2">>}

HostLists == UNION {[1..n -> {HostNames_h \o <<":", "9">> : HostNames_h \in HostNames}] :
                        n \in 0..MaxHosts}

\* The text values include bytes that url.QueryEscape and the host escaping
\* rewrite: '&', '=', '@', '/', '%', a blank, a rune outside ASCII.
DriverConfigs ==
    [Username : {<<>>, <<"u", "@", "x">>},
     Password : {<<>>, <<"p", "&", "w", "=", "%", " ", "U+00E9">>},
     Database : {<<>>, <<"a", "/", "b">>},
     Host : {<<"h", "1">>, <<"h", " ", "/", "?">>},
     Port : {9000},
     ReadTimeout : ConfigInts,
     WriteTimeout : ConfigInts,
     Nagle : BOOLEAN,
     AltHosts : {hs \in HostLists : \A i, j \in 1..Len(hs) : i < j => hs[i] # hs[j]},
     ConnectionOpenStrategy : {<<>>, <<"r", "a", "n", "d", "o", "m">>},
     BlockSize : ConfigInts,
     Debug : BOOLEAN,
     Secure : {FALSE},
     SkipVerify : {FALSE}]

InitDSN ==
    /\ DriverInit /\ FlagsInit
    /\ op = ""
    /\ arg \in DriverConfigs
    /\ ret = <<>>

BuildQueryStringCall ==
    /\ op = ""
    /\ op' = "ClickhouseBuildQueryString"
    /\ ret' = ClickhouseBuildQueryString(arg)
    /\ UNCHANGED <<arg, driverVars, flagVars>>

NextDSN == BuildQueryStringCall

SpecDSN == InitDSN /\ [][NextDSN]_vars

\* ---- C8 ----
\* The fields of s separated by sep: with n separators, n + 1 fields.
Fields(s, sep) ==
    LET cut == {k \in 1..Len(s) : s[k] = sep}
        Nth(j) == IF j = 0 THEN 0
                  ELSE IF j > Cardinality(cut) THEN Len(s) + 1
                  ELSE CHOOSE k \in cut : Cardinality({m \in cut : m < k}) = j - 1
    IN  [j \in 1..(Cardinality(cut) + 1) |-> SubSeq(s, Nth(j - 1) + 1, Nth(j) - 1)]

\* The query component of a connection string: what follows the '?'.
QueryComponent(dsn) ==
    LET parts == Fields(dsn, "?")
    IN  IF Len(parts) < 2 THEN <<>> ELSE parts[2]

\* The parameters of the query component, each as <<key, value>>: the
\* parameters are separated by '&', key and value by '='.
Parameters(dsn) ==
    LET params == Fields(QueryComponent(dsn), "&")
    IN  [i \in 1..Len(params) |-> Fields(params[i], "=")]

QueryValue(dsn, key) ==
    LET params == Parameters(dsn)
    IN  params[CHOOSE i \in 1..Len(params) : params[i][1] = key][2]

AllOptionalEmpty(config) ==
    /\ config.Username = <<>> /\ config.Password = <<>>
    /\ config.ReadTimeout = 0 /\ config.WriteTimeout = 0
    /\ config.AltHosts = <<>> /\ config.ConnectionOpenStrategy = <<>>
    /\ config.BlockSize <= 0

\* C8: the query component always holds database, debug and no_delay, with
\* no_delay the negation of Nagle; every other key is present exactly when
\* its field is non-default, so a configuration with all optional fields
\* empty yields database, no_delay and debug alone.
C8_QueryParameters ==
    op = "ClickhouseBuildQueryString" =>
        LET params == Parameters(ret)
            keys == {params[i][1] : i \in 1..Len(params)}
        IN  /\ \A i \in 1..Len(params) : Len(params[i]) = 2
            /\ \A i, j \in 1..Len(params) : params[i][1] = params[j][1] => i = j
            /\ {KeyDatabase, KeyDebug, KeyNoDelay} \subseteq keys
            /\ QueryValue(ret, KeyNoDelay) = (IF arg.Nagle THEN <<"f", "a", "l", "s", "e">>
                                              ELSE <<"t", "r", "u", "e">>)
            /\ KeyUsername \in keys <=> arg.Username # <<>>
            /\ KeyPassword \in keys <=> arg.Password # <<>>
            /\ KeyReadTimeout \in keys <=> arg.ReadTimeout # 0
            /\ KeyWriteTimeout \in keys <=> arg.WriteTimeout # 0
            /\ KeyAltHosts \in keys <=> arg.AltHosts # <<>>
            /\ KeyConnectionOpenStrategy \in keys <=> arg.ConnectionOpenStrategy # <<>>
            /\ KeyBlockSize \in keys <=> arg.BlockSize > 0
            /\ keys \subseteq {SortedKeys[i] : i \in 1..Len(SortedKeys)}
            /\ AllOptionalEmpty(arg) => keys = {KeyDatabase, KeyDebug, KeyNoDelay}

C8_Witness ==
    /\ op = "ClickhouseBuildQueryString"
    /\ AllOptionalEmpty(arg)
    /\ arg.Nagle
    /\ Len(Parameters(ret)) = 3
    /\ QueryValue(ret, KeyNoDelay) = <<"f", "a", "l", "s", "e">>

(***************************************************************************)
(* database/sql as the driver sees it.  What goes wrong during one query   *)
(* is the record fail: kind "none"; "query" (Query returns an error);      *)
(* "scan" (Scan of row number at returns an error); "iter" (call number at *)
(* of rows.Next returns false with rows.Err() set).                        *)
(***************************************************************************)
NoFailure == [kind |-> "none", at |-> 0]

\* The state of the handle a method dereferences.
ConnState == IF dbConn = 0 THEN "nil" ELSE IF dbConn \in closed THEN "closed" ELSE "open"

\* (*sql.DB).Query: an error on a closed handle or a transport failure.
QueryFails(conn, fail) == conn = "closed" \/ fail.kind = "query"

\* Rows for which rows.Next() returns true.
Delivered(rows, fail) ==
    IF fail.kind = "iter" /\ fail.at <= Len(rows) THEN fail.at - 1 ELSE Len(rows)

\* Whether the failure named by fail takes place while n rows are read.
FailureOccurs(conn, n, fail) ==
    \/ conn = "closed"
    \/ fail.kind = "query"
    \/ fail.kind = "scan" /\ fail.at <= n
    \/ fail.kind = "iter" /\ fail.at <= n + 1

(***************************************************************************)
(* The catalog.                                                            *)
(***************************************************************************)
FixedString16 ==
    <<"F", "i", "x", "e", "d", "S", "t", "r", "i", "n", "g", "(", "1", "6", ")">>

FixedStringName == <<"F", "i", "x", "e", "d", "S", "t", "r", "i", "n", "g">>

UInt8Name == <<"U", "I", "n", "t", "8">>

\* system.tables
SystemTables ==
    <<[database |-> "db", name |-> "events", engine_full |-> ExampleEngine],
      [database |-> "system", name |-> "tables", engine_full |-> <<"L", "o", "g">>],
      [database |-> "db", name |-> "logs", engine_full |-> <<"L", "o", "g">>],
      [database |-> "db", name |-> "broken",
       engine_full |-> <<"M", "(", "a", ",", " ", "(", "b", ")", ",", " ", "x", ")">>]>>

\* system.columns
SystemColumns ==
    <<[database |-> "db", table |-> "events", name |-> "EventDate",
       type |-> <<"D", "a", "t", "e">>, default_expression |-> <<>>],
      [database |-> "db", table |-> "events", name |-> "CounterID",
       type |-> UInt8Name, default_expression |-> <<"0">>],
      [database |-> "db", table |-> "events", name |-> "Tag",
       type |-> FixedString16, default_expression |-> <<>>],
      [database |-> "db", table |-> "logs", name |-> "Line",
       type |-> <<"S", "t", "r", "i", "n", "g">>, default_expression |-> <<>>]>>

(***************************************************************************)
(* TableNames                                                              *)
(***************************************************************************)
BaseTableQuery == "select name from system.tables where database = ? and database <> 'system'"

\* strings.Repeat(",?", n)[1:]
Placeholders(n) == Suffix(Repeat(<<",", "?">>, n), 1)

\* The query text, as the fragments Sprintf puts together, and its arguments
\* (lines 131-143).
\* A plausible slip: the blacklist branch is an if of its own, not an else.
TableNamesQueryBothFilters(database, whitelist, blacklist) ==
    LET q1 == IF Len(whitelist) > 0
              THEN <<BaseTableQuery, " and name in (">> \o Placeholders(Len(whitelist)) \o <<");">>
              ELSE <<BaseTableQuery>>
        a1 == IF Len(whitelist) > 0 THEN <<database>> \o whitelist ELSE <<database>>
    IN  IF Len(blacklist) > 0
        THEN [query |-> q1 \o <<" and name not in (">> \o Placeholders(Len(blacklist)) \o <<");">>,
              args |-> a1 \o blacklist]
        ELSE [query |-> q1, args |-> a1]

TableNamesQuery(database, whitelist, blacklist) ==
    IF Len(whitelist) > 0
    THEN [query |-> <<BaseTableQuery, " and name in (">> \o Placeholders(Len(whitelist))
                        \o <<");">>,
          args |-> <<database>> \o whitelist]
    ELSE IF Len(blacklist) > 0
    THEN [query |-> <<BaseTableQuery, " and name not in (">> \o Placeholders(Len(blacklist))
                        \o <<");">>,
          args |-> <<database>> \o blacklist]
    ELSE [query |-> <<BaseTableQuery>>, args |-> <<database>>]

\* The server's answer to a table query: the names of system.tables, in
\* catalog order, that pass the filters the query text states.
RECURSIVE PassesFilters(_, _, _, _)
PassesFilters(name, query, args, bound) ==
    IF Len(query) = 0 THEN TRUE
    ELSE IF Head(query) = " and name in ("
    THEN LET n == (Index(query, ");") + 1) \div 2
         IN  /\ name \in {args[i] : i \in (bound + 1)..(bound + n)}
             /\ PassesFilters(name, Suffix(query, Index(query, ");") + 1), args, bound + n)
    ELSE IF Head(query) = " and name not in ("
    THEN LET n == (Index(query, ");") + 1) \div 2
         IN  /\ name \notin {args[i] : i \in (bound + 1)..(bound + n)}
             /\ PassesFilters(name, Suffix(query, Index(query, ");") + 1), args, bound + n)
    ELSE PassesFilters(name, Tail(query), args, bound)

SelectTableNames(query, args) ==
    LET hits == SelectSeq(SystemTables,
                    LAMBDA r : /\ r.database = args[1]
                               /\ r.database # "system"
                               /\ PassesFilters(r.name, Tail(query), args, 1))
    IN  [i \in 1..Len(hits) |-> hits[i].name]

\* The loop over rows (lines 152-158), then the return of line 160.
TableNamesRows(rows, fail) ==
    IF fail.kind = "scan" /\ fail.at <= Delivered(rows, fail)
    THEN [names |-> <<>>, err |-> "scan"]
    ELSE [names |-> Prefix(rows, Delivered(rows, fail)), err |-> ""]

\* (m *ClickhouseDriver) TableNames(database, whitelist, blacklist) on a
\* non-nil handle in state conn.
TableNames(conn, database, whitelist, blacklist, fail) ==
    LET sent == TableNamesQuery(database, whitelist, blacklist)
    IN  IF QueryFails(conn, fail)
        THEN [names |-> <<>>, err |-> "query", sent |-> sent]
        ELSE LET r == TableNamesRows(SelectTableNames(sent.query, sent.args), fail)
             IN  [names |-> r.names, err |-> r.err, sent |-> sent]

(***************************************************************************)
(* Columns                                                                 *)
(***************************************************************************)
\* A plausible slip: idx >= 0 in place of idx > 0.
BaseTypeFromZero(fullColType) ==
    LET idx == Index(fullColType, "(")
    IN  IF idx >= 0 THEN Prefix(fullColType, idx) ELSE fullColType

\* colType of lines 188-192.
BaseType(fullColType) ==
    LET idx == Index(fullColType, "(")
    IN  IF idx > 0 THEN Prefix(fullColType, idx) ELSE fullColType

\* bdb.Column of lines 194-199.
NewColumn(row) ==
    [Name |-> row.name, FullDBType |-> row.type, DBType |-> BaseType(row.type),
     Default |-> row.default_expression]

\* The server's answer to the column query of lines 170-174.
SelectColumns(tableName, database) ==
    SelectSeq(SystemColumns, LAMBDA r : r.table = tableName /\ r.database = database)

\* The loop over rows (lines 181-202), then the return of line 204.
ColumnsRows(rows, fail) ==
    IF fail.kind = "scan" /\ fail.at <= Delivered(rows, fail)
    THEN [columns |-> <<>>, err |-> "unable to scan for table"]
    ELSE [columns |-> [i \in 1..Delivered(rows, fail) |-> NewColumn(rows[i])], err |-> ""]

\* (m *ClickhouseDriver) Columns(database, tableName) on a non-nil handle in
\* state conn, the server answering with rows.
Columns(conn, rows, fail) ==
    IF QueryFails(conn, fail) THEN [columns |-> <<>>, err |-> "query"]
    ELSE ColumnsRows(rows, fail)

(***************************************************************************)
(* PrimaryKeyInfo                                                          *)
(***************************************************************************)
\* The server's answer to the query of lines 212-215.
SelectEngine(table, database) ==
    SelectSeq(SystemTables, LAMBDA r : r.name = table /\ r.database = database)

\* (*sql.Row).Scan after QueryRow: the query's error, else rows.Err() or
\* sql.ErrNoRows when Next is false, else the error of scanning the first row.
RowScan(conn, rows, fail) ==
    IF QueryFails(conn, fail) THEN "query"
    ELSE IF fail.kind = "iter" /\ fail.at = 1 THEN "iter"
    ELSE IF Len(rows) = 0 THEN "sql.ErrNoRows"
    ELSE IF fail.kind = "scan" /\ fail.at = 1 THEN "scan"
    ELSE ""

\* A plausible slip: sql.ErrNoRows is returned like any other error.
PrimaryKeyInfoNoRowsIsError(conn, database, table, fail) ==
    LET rows == SelectEngine(table, database)
        err == RowScan(conn, rows, fail)
    IN  IF err # "" THEN [pkey |-> <<>>, err |-> err]
        ELSE LET engine == parseEngine(rows[1].engine_full)
             IN  IF engine.err # "" THEN [pkey |-> <<>>, err |-> "bad engine"]
                 ELSE [pkey |-> <<[Name |-> rows[1].name,
                                   Columns |-> engine.engine[1].PrimaryKey]>>,
                       err |-> ""]

\* (m *ClickhouseDriver) PrimaryKeyInfo(database, table) on a non-nil handle
\* in state conn.
PrimaryKeyInfo(conn, database, table, fail) ==
    LET rows == SelectEngine(table, database)
        err == RowScan(conn, rows, fail)
    IN  IF err = "sql.ErrNoRows" THEN [pkey |-> <<>>, err |-> ""]
        ELSE IF err # "" THEN [pkey |-> <<>>, err |-> err]
        ELSE LET engine == parseEngine(rows[1].engine_full)
             IN  IF engine.err # "" THEN [pkey |-> <<>>, err |-> "bad engine"]
                 ELSE [pkey |-> <<[Name |-> rows[1].name,
                                   Columns |-> engine.engine[1].PrimaryKey]>>,
                       err |-> ""]

(***************************************************************************)
(* Open and Close                                                          *)
(***************************************************************************)
\* (m *ClickhouseDriver) Open()
Open(ok) ==
    /\ ~panicked /\ op = ""
    /\ IF ok
       THEN /\ Cardinality(created) < MaxHandles
            /\ created' = created \cup {Cardinality(created) + 1}
            /\ dbConn' = Cardinality(created) + 1
            /\ ret' = [err |-> ""]
       ELSE \* sql.Open returns (nil, err) and line 102 stores the nil
            /\ created' = created
            /\ dbConn' = 0
            /\ ret' = [err |-> "sql.Open"]
    /\ op' = "Open"
    /\ arg' = <<>>
    /\ UNCHANGED <<closed, panicked, flagVars>>

\* A plausible slip: Close returns without closing m.dbConn.
CloseWithoutRelease ==
    /\ ~panicked /\ op = ""
    /\ op' = "Close"
    /\ arg' = <<>>
    /\ ret' = <<>>
    /\ UNCHANGED <<dbConn, created, closed, panicked, flagVars>>

\* (m *ClickhouseDriver) Close(): a nil m.dbConn is dereferenced.
Close ==
    /\ ~panicked /\ op = ""
    /\ IF dbConn = 0
       THEN panicked' = TRUE /\ closed' = closed
       ELSE panicked' = FALSE /\ closed' = closed \cup {dbConn}
    /\ op' = "Close"
    /\ arg' = <<>>
    /\ ret' = <<>>
    /\ UNCHANGED <<dbConn, created, flagVars>>

(***************************************************************************)
(* Specification Spec: one driver instance, its methods called in any      *)
(* order.                                                                  *)
(***************************************************************************)
Databases == {"db", "system"}
ListedNames == {"events", "absent"}
LookedUpNames == {"events", "logs", "broken", "absent"}

NameLists == UNION {[1..n -> ListedNames] : n \in 0..MaxList}

FailModes ==
    {NoFailure, [kind |-> "query", at |-> 0]}
        \cup {[kind |-> k, at |-> i] : k \in {"scan", "iter"}, i \in 1..Len(SystemColumns)}

Init ==
    /\ DriverInit /\ FlagsInit
    /\ op = "" /\ arg = <<>> /\ ret = <<>>

\* A method that dereferences a nil m.dbConn ends the process.
NilDereference(name) ==
    /\ dbConn = 0
    /\ panicked' = TRUE
    /\ op' = name
    /\ arg' = <<>>
    /\ ret' = <<>>
    /\ UNCHANGED <<dbConn, created, closed, flagVars>>

TableNamesCall(database, whitelist, blacklist, fail) ==
    /\ ~panicked /\ op = ""
    /\ \/ NilDereference("TableNames")
       \/ /\ dbConn # 0
          /\ op' = "TableNames"
          /\ arg' = [database |-> database, whitelist |-> whitelist,
                     blacklist |-> blacklist, fail |-> fail]
          /\ ret' = TableNames(ConnState, database, whitelist, blacklist, fail)
          /\ UNCHANGED <<driverVars, flagVars>>

ColumnsCall(database, tableName, fail) ==
    /\ ~panicked /\ op = ""
    /\ \/ NilDereference("Columns")
       \/ /\ dbConn # 0
          /\ op' = "Columns"
          /\ arg' = [database |-> database, tableName |-> tableName,
                     rows |-> SelectColumns(tableName, database), fail |-> fail]
          /\ ret' = Columns(ConnState, SelectColumns(tableName, database), fail)
          /\ UNCHANGED <<driverVars, flagVars>>

PrimaryKeyInfoCall(database, table, fail) ==
    /\ ~panicked /\ op = ""
    /\ \/ NilDereference("PrimaryKeyInfo")
       \/ /\ dbConn # 0
          /\ op' = "PrimaryKeyInfo"
          /\ arg' = [database |-> database, table |-> table, fail |-> fail]
          /\ ret' = PrimaryKeyInfo(ConnState, database, table, fail)
          /\ UNCHANGED <<driverVars, flagVars>>

OpenCall == \E ok \in BOOLEAN : Open(ok)

\* The caller takes the result; calls are sequential and synchronous, so the
\* next method starts only then.  A panic is never returned from.
Return ==
    /\ ~panicked /\ op # ""
    /\ op' = "" /\ arg' = <<>> /\ ret' = <<>>
    /\ UNCHANGED <<driverVars, flagVars>>

Next ==
    \/ OpenCall
    \/ Return
    \/ Close
    \/ \E d \in Databases, wl \in NameLists, bl \in NameLists, f \in FailModes :
           TableNamesCall(d, wl, bl, f)
    \/ \E d \in Databases, t \in LookedUpNames, f \in FailModes : ColumnsCall(d, t, f)
    \/ \E d \in Databases, t \in LookedUpNames, f \in FailModes : PrimaryKeyInfoCall(d, t, f)

Spec == Init /\ [][Next]_vars

(***************************************************************************)
(* Specification SpecColumns: Columns on an open handle, the catalog       *)
(* holding one column of an arbitrary raw type.                            *)
(***************************************************************************)
TypeAlphabet == {"(", ")", "F", "1"}

RawTypes ==
    UNION {[1..n -> TypeAlphabet] : n \in 0..MaxTypeLen} \cup {FixedString16, UInt8Name}

InitColumns ==
    /\ FlagsInit
    /\ dbConn = 1 /\ created = {1} /\ closed = {} /\ panicked = FALSE
    /\ op = ""
    /\ arg \in {[database |-> "db", tableName |-> "t",
                 rows |-> <<[name |-> "c", type |-> t, default_expression |-> <<>>]>>,
                 fail |-> NoFailure] : t \in RawTypes}
    /\ ret = <<>>

ColumnsOfCatalog ==
    /\ op = ""
    /\ op' = "Columns"
    /\ ret' = Columns(ConnState, arg.rows, arg.fail)
    /\ UNCHANGED <<arg, driverVars, flagVars>>

NextColumns == ColumnsOfCatalog

SpecColumns == InitColumns /\ [][NextColumns]_vars

(***************************************************************************)
(* Claims about the driver (checked under Spec and SpecColumns).           *)
(***************************************************************************)
\* The rows the catalog produced for the listing that has just run.
ProducedRows ==
    IF op = "TableNames" THEN SelectTableNames(ret.sent.query, ret.sent.args) ELSE arg.rows

ReturnedSequence == IF op = "TableNames" THEN ret.names ELSE ret.columns

\* ---- C4 ----
\* C4: TableNames and Columns never return partial data: a transport or
\* driver failure at any point (issuing the query, decoding a row, iterating
\* over the rows) makes the operation return an error and no sequence, and a
\* return without error carries every row the catalog produced, in order.
C4_NoPartialData ==
    (op \in {"TableNames", "Columns"} /\ ~panicked) =>
        /\ FailureOccurs(ConnState, Len(ProducedRows), arg.fail) =>
               (ret.err # "" /\ ReturnedSequence = <<>>)
        /\ ret.err = "" =>
               /\ Len(ReturnedSequence) = Len(ProducedRows)
               /\ op = "TableNames" => ret.names = ProducedRows
               /\ op = "Columns" =>
                      \A i \in 1..Len(ProducedRows) :
                          ret.columns[i].Name = ProducedRows[i].name

\* ---- C5 ----
\* b is raw up to, and without, its first '('.
IsPrefixBeforeBracket(b, raw) ==
    \E k \in 1..Len(raw) :
        /\ raw[k] = "(" /\ \A j \in 1..(k - 1) : raw[j] # "("
        /\ Len(b) = k - 1 /\ \A j \in 1..(k - 1) : b[j] = raw[j]

HasBracket(raw) == \E k \in 1..Len(raw) : raw[k] = "("

\* C5 as stated: for every raw type, DBType is the prefix of FullDBType up to
\* and not including its first '(', and FullDBType itself when there is none.
C5_BaseTypeIsPrefix ==
    (op = "Columns" /\ ~panicked /\ ret.err = "") =>
        \A i \in 1..Len(ret.columns) :
            /\ ret.columns[i].FullDBType = arg.rows[i].type
            /\ IF HasBracket(arg.rows[i].type)
               THEN IsPrefixBeforeBracket(ret.columns[i].DBType, arg.rows[i].type)
               ELSE ret.columns[i].DBType = arg.rows[i].type

\* C5 amended: DBType is the prefix of FullDBType before its first '(' when
\* that '(' is not the first character; it is FullDBType itself when there is
\* no '(' or when FullDBType begins with '('.  DBType is never empty unless
\* FullDBType is.
C5_BaseTypeIsPrefixUnlessLeading ==
    (op = "Columns" /\ ~panicked /\ ret.err = "") =>
        \A i \in 1..Len(ret.columns) :
            /\ ret.columns[i].FullDBType = arg.rows[i].type
            /\ IF HasBracket(arg.rows[i].type) /\ arg.rows[i].type[1] # "("
               THEN IsPrefixBeforeBracket(ret.columns[i].DBType, arg.rows[i].type)
               ELSE ret.columns[i].DBType = arg.rows[i].type
            /\ ret.columns[i].DBType = <<>> => arg.rows[i].type = <<>>

C5_Witness ==
    /\ op = "Columns" /\ ret.err = ""
    /\ Len(ret.columns) = 1
    /\ ret.columns[1].FullDBType = FixedString16
    /\ ret.columns[1].DBType = FixedStringName

\* ---- C6 ----
CountOf(seq, x) == Cardinality({i \in 1..Len(seq) : seq[i] = x})

ElementsOf(l) == {l[i] : i \in 1..Len(l)}

AllTableNames == {SystemTables[i].name : i \in 1..Len(SystemTables)}

\* The names in keep of the database's tables outside the system database,
\* in catalog order.
CatalogNames(database, keep) ==
    LET at == {i \in 1..Len(SystemTables) :
                  /\ SystemTables[i].database = database
                  /\ database # "system"
                  /\ SystemTables[i].name \in keep}
        Rank(i) == Cardinality({j \in at : j <= i})
    IN  [k \in 1..Cardinality(at) |-> SystemTables[CHOOSE i \in at : Rank(i) = k].name]

\* C6: with a non-empty whitelist (whatever the blacklist) the query has
\* exactly one `name in (...)` filter with one placeholder per whitelist
\* entry, the arguments are the database then the whitelist in order, and no
\* `not in` filter or blacklist entry is used; the blacklist filter is used
\* only when the whitelist is empty, and no name filter when both are empty.
C6_WhitelistPrecedence ==
    (op = "TableNames" /\ ~panicked) =>
        LET q == ret.sent.query
            wl == arg.whitelist
            bl == arg.blacklist
            Served == ConnState = "open" /\ arg.fail.kind = "none"
        IN  /\ q[1] = BaseTableQuery
            /\ Len(wl) > 0 =>
                 /\ CountOf(q, " and name in (") = 1
                 /\ CountOf(q, " and name not in (") = 0
                 /\ CountOf(q, "?") = Len(wl)
                 /\ ret.sent.args = <<arg.database>> \o wl
                 /\ Served => ret.names = CatalogNames(arg.database, ElementsOf(wl))
            /\ (Len(wl) = 0 /\ Len(bl) > 0) =>
                 /\ CountOf(q, " and name in (") = 0
                 /\ CountOf(q, " and name not in (") = 1
                 /\ CountOf(q, "?") = Len(bl)
                 /\ ret.sent.args = <<arg.database>> \o bl
                 /\ Served => ret.names = CatalogNames(arg.database,
                                              AllTableNames \ ElementsOf(bl))
            /\ (Len(wl) = 0 /\ Len(bl) = 0) =>
                 /\ q = <<BaseTableQuery>>
                 /\ ret.sent.args = <<arg.database>>
                 /\ Served => ret.names = CatalogNames(arg.database, AllTableNames)

C6_Witness ==
    /\ op = "TableNames" /\ ~panicked
    /\ arg.database = "db"
    /\ arg.whitelist = <<"absent", "events">>
    /\ arg.blacklist = <<"events">>
    /\ ret.sent.args = <<"db", "absent", "events">>
    /\ ret.err = ""
    /\ ret.names = <<"events">>

\* ---- C7 ----
CatalogHasRow(table, database) ==
    \E i \in 1..Len(SystemTables) :
        SystemTables[i].name = table /\ SystemTables[i].database = database

CatalogEngine(table, database) ==
    SystemTables[CHOOSE i \in 1..Len(SystemTables) :
        /\ SystemTables[i].name = table /\ SystemTables[i].database = database
        /\ \A j \in 1..(i - 1) :
               ~(SystemTables[j].name = table /\ SystemTables[j].database = database)].engine_full

\* The lookup ran to its end: the handle is open and the transport did not
\* fail while the (at most one) row was read.
LookupCompleted ==
    /\ ConnState = "open"
    /\ arg.fail.kind # "query"
    /\ ~(arg.fail.kind = "iter" /\ arg.fail.at = 1)
    /\ ~(arg.fail.kind = "scan" /\ arg.fail.at = 1 /\ CatalogHasRow(arg.table, arg.database))

\* What PrimaryKeyInfo owes for a row it has read: the key with the parser's
\* primary-key list for the row's engine string, or an error when the engine
\* string cannot be parsed.
KeyOfRow ==
    LET parsed == parseEngine(CatalogEngine(arg.table, arg.database))
    IN  IF parsed.err = ""
        THEN /\ ret.err = ""
             /\ Len(ret.pkey) = 1
             /\ ret.pkey[1].Name = arg.table
             /\ ret.pkey[1].Columns = parsed.engine[1].PrimaryKey
        ELSE ret.pkey = <<>> /\ ret.err # ""

\* C7 as stated: PrimaryKeyInfo returns the absent result (nil key, nil
\* error) exactly when the catalog has no row for the (table, database)
\* pair; when a row exists it returns either a key whose columns are the
\* parser's primary-key list for the row's engine string, or an error when
\* the engine string cannot be parsed or the row cannot be read; never a key
\* with an error.
C7_AbsentIffNoRow ==
    (op = "PrimaryKeyInfo" /\ ~panicked) =>
        LET has == CatalogHasRow(arg.table, arg.database)
            absent == ret.pkey = <<>> /\ ret.err = ""
        IN  /\ absent <=> ~has
            /\ has => (KeyOfRow \/ (ret.pkey = <<>> /\ ret.err # ""))
            /\ ~(ret.pkey # <<>> /\ ret.err # "")

\* C7 amended: when the lookup fails (closed handle, failed query, failed
\* read of the row) PrimaryKeyInfo returns a nil key with an error, whether
\* or not the catalog has a row; when the lookup runs to its end it returns
\* the absent result (nil key, nil error) exactly when the catalog has no
\* row, and for a row either a key whose columns are the parser's
\* primary-key list for the row's engine string or an error when the engine
\* string cannot be parsed; never a key with an error.
C7_AbsentIffLookupFindsNoRow ==
    (op = "PrimaryKeyInfo" /\ ~panicked) =>
        LET has == CatalogHasRow(arg.table, arg.database)
            absent == ret.pkey = <<>> /\ ret.err = ""
        IN  /\ ~LookupCompleted => (ret.pkey = <<>> /\ ret.err # "")
            /\ LookupCompleted => (absent <=> ~has)
            /\ (has /\ LookupCompleted) => KeyOfRow
            /\ ~(ret.pkey # <<>> /\ ret.err # "")

C7_Witness ==
    /\ op = "PrimaryKeyInfo" /\ ~panicked
    /\ arg.table = "absent"
    /\ ~CatalogHasRow(arg.table, arg.database)
    /\ arg.fail.kind = "none"
    /\ ret.pkey = <<>> /\ ret.err = ""

\* ---- C10 ----
Unreleased == created \ closed

\* C10 as stated: for any sequence of Open and Close calls at most one
\* unreleased handle exists, and no still-open handle is overwritten.
C10_AtMostOneUnreleased == Cardinality(Unreleased) <= 1

\* C10 amended: Open stores the new handle in place of the stored one without
\* releasing it, and Close releases the stored handle.  So every step that is
\* not an Open on a driver whose stored handle is still unreleased keeps the
\* stored handle the only unreleased one, and a Close leaves none.
C10_OneUnreleasedUnlessReopened ==
    [][/\ (Unreleased \subseteq {dbConn} /\ ~(OpenCall /\ dbConn \in Unreleased))
            => Unreleased' \subseteq {dbConn'}
       /\ (Close /\ dbConn # 0 /\ Unreleased \subseteq {dbConn}) => Unreleased' = {}]_vars

C10_Witness ==
    /\ Cardinality(created) = 2
    /\ closed = {1}
    /\ dbConn = 2
    /\ Unreleased = {2}
    /\ op = "Open"

====
